---- MODULE Spec2Model ----
(***************************************************************************)
(* One room of the herd game server (the socket.io server of               *)
(* src/unnamed/part_000 with the mongoose models and utils it imports).    *)
(*                                                                         *)
(* The database is four collections (game, players, rounds, answers).      *)
(* Every socket event starts an async handler; a handler is a sequence of  *)
(* awaited database operations, and handlers interleave at every await.    *)
(* One action of the model is one awaited database operation together with *)
(* the synchronous code that follows it up to the next await.  An event is *)
(* received at the moment its handler's first database operation is taken. *)
(* A trailing read whose only use is the payload of a broadcast is part of *)
(* the step before it.  The model holds one room.                          *)
(***************************************************************************)
EXTENDS Integers, Sequences, FiniteSets, TLC

\* ------------------------------------------------------------- bounds
NSockets == 2          \* connections ever opened
NNames == 2            \* display names clients type
MaxHandlers == 2       \* handlers in flight at the same time
MaxEvents == 4         \* events received after construction
RoundEvents == 3       \* events received in the first round of a room in play
LateEvents == 3        \* events received in the round that can end the game
NQuestions == 2        \* size of the prompt catalog

\* ----------------------------------------------------- program constants
WinScore == 8

Sockets == 1..NSockets
Names == 1..NNames
NoSocket == 0
NoPlayer == 0
NoRound == 0
NoQuestion == 0

\* ------------------------------------------------------ answer normalizer
\* Strings are sequences of one-character strings; the grave accent, which a
\* TLA+ string cannot hold, is written "grave".
Upper == <<"D", "S">>
LowerOf == <<"d", "s">>
WhiteSpace == {" "}
Punctuation == {".", ",", "/", "#", "!", "$", "%", "^", "&", "*", ";", ":", "{", "}",
                "=", "-", "_", "grave", "~", "(", ")"}
WordChars == {"a", "c", "d", "e", "g", "h", "n", "o", "r", "s", "t", "u", "_"}

toLowerCase(s) ==
  [i \in 1..Len(s) |->
     IF \E k \in 1..Len(Upper) : Upper[k] = s[i]
     THEN LowerOf[CHOOSE k \in 1..Len(Upper) : Upper[k] = s[i]]
     ELSE s[i]]

RECURSIVE trimStart(_)
trimStart(s) ==
  IF s # <<>> /\ Head(s) \in WhiteSpace THEN trimStart(Tail(s)) ELSE s

RECURSIVE trimEnd(_)
trimEnd(s) ==
  IF s # <<>> /\ s[Len(s)] \in WhiteSpace THEN trimEnd(SubSeq(s, 1, Len(s) - 1)) ELSE s

trim(s) == trimEnd(trimStart(s))

\* replace whitespace runs by one space
RECURSIVE collapseSpaces(_)
collapseSpaces(s) ==
  IF s = <<>> THEN <<>>
  ELSE IF Head(s) \in WhiteSpace
       THEN <<" ">> \o collapseSpaces(trimStart(s))
       ELSE <<Head(s)>> \o collapseSpaces(Tail(s))

\* remove the punctuation characters
stripPunctuation(s) == SelectSeq(s, LAMBDA c : c \notin Punctuation)

\* remove one trailing s
stripTrailingS(s) ==
  IF s # <<>> /\ s[Len(s)] \in {"s", "S"} THEN SubSeq(s, 1, Len(s) - 1) ELSE s

\* \b at position i (between s[i-1] and s[i])
WordBoundary(s, i) ==
  LET before == i > 1 /\ s[i - 1] \in WordChars
      after == i <= Len(s) /\ s[i] \in WordChars
  IN before # after

Articles == << <<"a">>, <<"a", "n">>, <<"t", "h", "e">> >>

\* length of the match of /\b(a|an|the)\b/ at position i, or 0
ArticleAt(s, i) ==
  LET fits(w) == /\ i + Len(w) - 1 <= Len(s)
                 /\ SubSeq(s, i, i + Len(w) - 1) = w
                 /\ WordBoundary(s, i)
                 /\ WordBoundary(s, i + Len(w))
  IN IF fits(Articles[1]) THEN 1
     ELSE IF fits(Articles[2]) THEN 2
     ELSE IF fits(Articles[3]) THEN 3
     ELSE 0

\* remove the articles that stand as whole words, scanning from position i
RECURSIVE stripArticlesFrom(_, _)
stripArticlesFrom(s, i) ==
  IF i > Len(s) THEN <<>>
  ELSE IF ArticleAt(s, i) > 0
       THEN stripArticlesFrom(s, i + ArticleAt(s, i))
       ELSE <<s[i]>> \o stripArticlesFrom(s, i + 1)

stripArticles(s) == stripArticlesFrom(s, 1)

\* the chain of replacements, each applied to the value of the one before
normalizeAnswer(answer) ==
  IF answer = <<>> THEN <<>>
  ELSE CHOOSE normalized \in
         {trim(f) : f \in
           {stripArticles(e) : e \in
             {stripTrailingS(d) : d \in
               {stripPunctuation(c) : c \in
                 {collapseSpaces(b) : b \in
                   {trim(a) : a \in {toLowerCase(answer)}}}}}}} : TRUE

\* the texts clients submit; the last one has the empty canonical form
RawAnswers ==
  { <<"d", "o", "g">>, <<"D", "o", "g", "s">>, <<"c", "a", "t">>, <<"t", "h", "e">> }


\* ------------------------------------------------------------ the store
VARIABLES
  game,      \* the Game document of the room, or NoGame
  players,   \* the Player collection in insertion order; a player's _id is its index
  rounds,    \* the Round collection, keyed by roundNumber
  answers,   \* the Answer collection
  hs,        \* the handlers in flight: slot -> handler record
  nconn,     \* number of connections opened so far; they are numbered 1..nconn
  open,      \* the connections that are open
  out,       \* the events emitted by the last step that a client acts on
  closes,    \* history: round number -> number of round_completed broadcasts
  left       \* number of events the server goes on to receive

db == <<game, players, rounds, answers>>
vars == <<game, players, rounds, answers, hs, nconn, open, out, closes, left>>

Questions == 1..NQuestions
NullText == <<"null">>

\* src/src/models/Game.js: the schema and its defaults
NoGame ==
  [hostId |-> NoSocket, status |-> "none", currentRound |-> 0, currentQuestion |-> NoQuestion,
   playersAnswered |-> 0, pinkCowHolder |-> NoPlayer, usedQuestions |-> <<>>]

NewGame(hostId) ==
  [hostId |-> hostId, status |-> "waiting", currentRound |-> 0, currentQuestion |-> NoQuestion,
   playersAnswered |-> 0, pinkCowHolder |-> NoPlayer, usedQuestions |-> <<>>]

\* the Player schema and its defaults
NewPlayer(username, isHost, socketId) ==
  [username |-> username, isHost |-> isHost, score |-> 0, isConnected |-> TRUE,
   socketId |-> socketId]

\* src/src/models/Round.js: the schema and its defaults
NewRound(roundNumber) ==
  [roundNumber |-> roundNumber, status |-> "collecting-answers",
   majorityAnswer |-> NullText, uniqueAnswerPlayer |-> NoPlayer]

NewAnswer(roundId, playerId, answer) ==
  [roundId |-> roundId, playerId |-> playerId, originalAnswer |-> answer,
   normalizedAnswer |-> normalizeAnswer(answer)]

PlayerIds == 1..Len(players)
\* Player.find with a filter on username, on socketId
PlayersNamed(username) == {i \in PlayerIds : players[i].username = username}
PlayersOn(socketId) == {i \in PlayerIds : players[i].socketId = socketId}
RoundExists(n) == \E r \in rounds : r.roundNumber = n
RoundOf(n) == CHOOSE r \in rounds : r.roundNumber = n
ConnectedPlayers == {i \in PlayerIds : players[i].isConnected}

NoResults ==
  [none |-> TRUE, majorityAnswer |-> NullText, uniqueAnswerPlayer |-> NoPlayer,
   scoringPlayers |-> {}]

\* ------------------------------------------------------------- handlers
\* A handler in flight: its event, the await it is suspended at, its socket,
\* the event's arguments and the locals it goes on to read.  wrote is history:
\* the handler has changed the store.
Idle ==
  [op |-> "idle", pc |-> "", sock |-> NoSocket, username |-> 0, target |-> NoSocket,
   answer |-> <<>>, game |-> NoGame, player |-> NoPlayer, pconn |-> FALSE,
   psock |-> NoSocket, round |-> NoRound, results |-> NoResults, holder |-> NoPlayer,
   winner |-> NoPlayer, wrote |-> FALSE]

\* the loaded game document, reduced to the fields the handler goes on to read
Loaded(g, fields) ==
  [hostId |-> IF "hostId" \in fields THEN g.hostId ELSE NoGame.hostId,
   status |-> IF "status" \in fields THEN g.status ELSE NoGame.status,
   currentRound |-> IF "currentRound" \in fields THEN g.currentRound ELSE NoGame.currentRound,
   currentQuestion |-> IF "currentQuestion" \in fields THEN g.currentQuestion
                       ELSE NoGame.currentQuestion,
   playersAnswered |-> IF "playersAnswered" \in fields THEN g.playersAnswered
                       ELSE NoGame.playersAnswered,
   pinkCowHolder |-> IF "pinkCowHolder" \in fields THEN g.pinkCowHolder
                     ELSE NoGame.pinkCowHolder,
   usedQuestions |-> IF "usedQuestions" \in fields THEN g.usedQuestions
                     ELSE NoGame.usedQuestions]

Slots == DOMAIN hs
FreeSlots == {h \in Slots : hs[h].op = "idle"}
\* a new handler takes the lowest free slot
NewSlot == CHOOSE h \in FreeSlots : \A k \in FreeSlots : h <= k

At(h, op, pc) == hs[h].op = op /\ hs[h].pc = pc

\* the handler of event op from socket s, suspended at pc
New(s, op, pc) == [Idle EXCEPT !.op = op, !.pc = pc, !.sock = s]

\* the handler begins and is suspended at its first await
Suspend(handler) ==
  /\ FreeSlots # {}
  /\ hs' = [hs EXCEPT ![NewSlot] = handler]

\* handler h at pc; the locals it does not go on to read are dropped
Cont(h, pc) ==
  [Idle EXCEPT !.op = hs[h].op, !.pc = pc, !.sock = hs[h].sock, !.wrote = hs[h].wrote]

Goto(h, handler) == hs' = [hs EXCEPT ![h] = handler]

Return(h) == hs' = [hs EXCEPT ![h] = Idle]

\* an emitted event; to = NoSocket is a broadcast to the room
Ev(ev, to, op, wrote) ==
  [ev |-> ev, to |-> to, op |-> op, wrote |-> wrote, round |-> NoRound,
   pa |-> 0, results |-> NoResults, winner |-> NoPlayer]

\* socket.emit('error', ...) and return, in the handler's first step
Reject(s, op) ==
  /\ out' = <<Ev("error", s, op, FALSE)>>
  /\ UNCHANGED hs

\* socket.emit('error', ...) and return
Fail(h) ==
  /\ out' = <<Ev("error", hs[h].sock, hs[h].op, hs[h].wrote)>>
  /\ Return(h)

\* an event of connection s is received
Received(s) ==
  /\ left > 0
  /\ left' = left - 1
  /\ s \in open

\* A client learns the roomCode and the gameId of the room from game_created:
\* no event names the room while its create_game handler is in flight.
RoomKnown == \A h \in Slots : hs[h].op # "create_game"

\* ---------------------------------------------------------- connections
\* io.on('connection', ...)
connection ==
  /\ nconn < NSockets
  /\ nconn' = nconn + 1
  /\ open' = open \cup {nconn + 1}
  /\ out' = <<>>
  /\ UNCHANGED <<db, hs, closes, left>>

\* ----------------------------------------------------------- create_game
\* create_game is received once: the model holds one room.  generateRoomCode
\* reads only.
create_game(s, username) ==
  /\ Received(s)
  /\ game = NoGame
  /\ RoomKnown
  /\ Suspend([New(s, "create_game", "saveGame") EXCEPT !.username = username])
  /\ out' = <<>>
  /\ UNCHANGED <<db, nconn, open, closes>>

create_game_saveGame(h) ==
  /\ At(h, "create_game", "saveGame")
  /\ game' = NewGame(hs[h].sock)
  /\ Goto(h, [Cont(h, "saveHost") EXCEPT !.username = hs[h].username, !.wrote = TRUE])
  /\ out' = <<>>
  /\ UNCHANGED <<players, rounds, answers, nconn, open, closes, left>>

create_game_saveHost(h) ==
  /\ At(h, "create_game", "saveHost")
  /\ IF PlayersNamed(hs[h].username) # {}
     THEN \* the unique index (gameId, username) rejects the host
          /\ Fail(h)
          /\ UNCHANGED players
     ELSE /\ players' = Append(players, NewPlayer(hs[h].username, TRUE, hs[h].sock))
          /\ out' = <<>>
          /\ Return(h)
  /\ UNCHANGED <<game, rounds, answers, nconn, open, closes, left>>

\* ------------------------------------------------------------- gameLogic
Count(found, t) == Cardinality({a \in found : a.normalizedAnswer = t})

\* const answerCounts = {}: a plain object.  Of the property names it inherits
\* from Object.prototype, the one a canonical text can equal
InheritedKeys == { <<"c", "o", "n", "s", "t", "r", "u", "c", "t", "o", "r">> }

\* answerCounts[normalized] = (answerCounts[normalized] || 0) + 1 counts the
\* answers of a text; for an inherited key the first read is a function, the sum
\* is a string, and Math.max over the values is NaN, which no count equals.
analyzeRoundAnswers(roundId) ==
  LET found == {a \in answers : a.roundId = roundId}
      texts == {a.normalizedAnswer : a \in found}
      counted == texts \ InheritedKeys
      maxIsNaN == texts \cap InheritedKeys # {}
      maxCount == CHOOSE m \in {Count(found, t) : t \in texts} :
                    \A t \in texts : Count(found, t) <= m
      majorityAnswers == IF maxIsNaN THEN {}
                         ELSE {t \in counted : Count(found, t) = maxCount}
      uniqueAnswers == {t \in counted : Count(found, t) = 1}
      uniquePlayers ==
        IF Cardinality(uniqueAnswers) = 1
        THEN (CHOOSE a \in found : a.normalizedAnswer \in uniqueAnswers).playerId
        ELSE NoPlayer
      scoringPlayers ==
        IF Cardinality(majorityAnswers) = 1
        THEN {a.playerId : a \in {b \in found : b.normalizedAnswer \in majorityAnswers}}
        ELSE {}
  IN IF found = {} THEN NoResults
     ELSE [none |-> FALSE,
           majorityAnswer |-> IF Cardinality(majorityAnswers) = 1
                              THEN CHOOSE t \in majorityAnswers : TRUE
                              ELSE NullText,
           uniqueAnswerPlayer |-> uniquePlayers,
           scoringPlayers |-> scoringPlayers]

determinePinkCowHolder(currentHolder, uniqueAnswerPlayer) ==
  IF uniqueAnswerPlayer # NoPlayer /\ uniqueAnswerPlayer # currentHolder
  THEN uniqueAnswerPlayer
  ELSE currentHolder

\* the questions getRandomQuestion can return
getRandomQuestion(usedQuestions) ==
  LET availableQuestions ==
        {q \in Questions : \A i \in 1..Len(usedQuestions) : usedQuestions[i] # q}
  IN IF availableQuestions = {} THEN Questions ELSE availableQuestions

\* document.save() of a loaded document writes the paths whose value differs
\* from the loaded one
SaveModified(doc, loaded, changed) ==
  [hostId |-> IF changed.hostId # loaded.hostId THEN changed.hostId ELSE doc.hostId,
   status |-> IF changed.status # loaded.status THEN changed.status ELSE doc.status,
   currentRound |-> IF changed.currentRound # loaded.currentRound
                    THEN changed.currentRound ELSE doc.currentRound,
   currentQuestion |-> IF changed.currentQuestion # loaded.currentQuestion
                       THEN changed.currentQuestion ELSE doc.currentQuestion,
   playersAnswered |-> IF changed.playersAnswered # loaded.playersAnswered
                       THEN changed.playersAnswered ELSE doc.playersAnswered,
   pinkCowHolder |-> IF changed.pinkCowHolder # loaded.pinkCowHolder
                     THEN changed.pinkCowHolder ELSE doc.pinkCowHolder,
   usedQuestions |-> IF changed.usedQuestions # loaded.usedQuestions
                     THEN changed.usedQuestions ELSE doc.usedQuestions]

\* player.socketId = socket.id; player.isConnected = true; await player.save()
\* for the player loaded with socketId = psock and isConnected = pconn
Rebind(i, psock, pconn, s) ==
  [players EXCEPT ![i] =
     [@ EXCEPT !.socketId = IF psock # s THEN s ELSE @,
               !.isConnected = IF ~pconn THEN TRUE ELSE @]]

\* ------------------------------------------------------------- join_game
\* Game.findOne({roomCode})
join_game(s, username) ==
  /\ Received(s)
  /\ RoomKnown
  /\ IF game = NoGame
     THEN Reject(s, "join_game")
     ELSE /\ Suspend([New(s, "join_game", "findPlayer") EXCEPT !.username = username,
             !.game = Loaded(game, {"status", "currentRound", "playersAnswered"})])
          /\ out' = <<>>
  /\ UNCHANGED <<db, nconn, open, closes>>

\* Player.findOne({gameId, username})
join_game_findPlayer(h) ==
  /\ At(h, "join_game", "findPlayer")
  /\ LET found == PlayersNamed(hs[h].username)
         loaded == Loaded(hs[h].game, {"currentRound", "playersAnswered"})
     IN IF found = {}
        THEN IF hs[h].game.status # "waiting"
             THEN Fail(h)
             ELSE /\ Goto(h, [Cont(h, "savePlayer") EXCEPT !.username = hs[h].username,
                     !.game = loaded])
                  /\ out' = <<>>
        ELSE \E i \in found :
               /\ Goto(h, [Cont(h, "savePlayer") EXCEPT !.game = loaded, !.player = i,
                       !.pconn = players[i].isConnected, !.psock = players[i].socketId])
               /\ out' = <<>>
  /\ UNCHANGED <<db, nconn, open, closes, left>>

join_game_savePlayer(h) ==
  /\ At(h, "join_game", "savePlayer")
  /\ IF hs[h].player # NoPlayer
     THEN /\ players' = Rebind(hs[h].player, hs[h].psock, hs[h].pconn, hs[h].sock)
          /\ Goto(h, [Cont(h, "sendState") EXCEPT !.game = hs[h].game,
                  !.wrote = players' # players])
          /\ out' = <<>>
     ELSE IF PlayersNamed(hs[h].username) # {}
          THEN \* the unique index (gameId, username) rejects the new player
               /\ Fail(h)
               /\ UNCHANGED players
          ELSE /\ players' = Append(players, NewPlayer(hs[h].username, FALSE, hs[h].sock))
               /\ Goto(h, [Cont(h, "sendState") EXCEPT !.game = hs[h].game, !.wrote = TRUE])
               /\ out' = <<>>
  /\ UNCHANGED <<game, rounds, answers, nconn, open, closes, left>>

\* Round.findOne, analyzeRoundAnswers for a completed round, game_joined
join_game_sendState(h) ==
  /\ At(h, "join_game", "sendState")
  /\ LET n == hs[h].game.currentRound
         completed == RoundExists(n) /\ RoundOf(n).status = "completed"
     IN out' = <<[Ev("game_joined", hs[h].sock, hs[h].op, hs[h].wrote) EXCEPT
                    !.round = n,
                    !.pa = hs[h].game.playersAnswered,
                    !.results = IF completed THEN analyzeRoundAnswers(n) ELSE NoResults]>>
  /\ Return(h)
  /\ UNCHANGED <<db, nconn, open, closes, left>>

\* ------------------------------------------------------------ start_game
\* the host check left out: every connection passes
IsHost_anyone(s) == TRUE

\* if (game.hostId !== socket.id)
IsHost(s) == game.hostId = s

\* Game.findById and the host check
start_game(s) ==
  /\ Received(s)
  /\ RoomKnown
  /\ IF game = NoGame \/ ~IsHost(s)
     THEN Reject(s, "start_game")
     ELSE /\ Suspend([New(s, "start_game", "saveGame") EXCEPT
                       !.game = Loaded(game, {"status", "currentRound", "currentQuestion",
                                              "usedQuestions"})])
          /\ out' = <<>>
  /\ UNCHANGED <<db, nconn, open, closes>>

start_game_saveGame(h) ==
  /\ At(h, "start_game", "saveGame")
  /\ \E firstQuestion \in getRandomQuestion(<<>>) :
       game' = SaveModified(game, hs[h].game,
                 [hs[h].game EXCEPT !.status = "in-progress",
                                    !.currentRound = 1,
                                    !.currentQuestion = firstQuestion,
                                    !.usedQuestions = <<firstQuestion>>])
  /\ Goto(h, [Cont(h, "saveRound") EXCEPT !.wrote = game' # game])
  /\ out' = <<>>
  /\ UNCHANGED <<players, rounds, answers, nconn, open, closes, left>>

start_game_saveRound(h) ==
  /\ At(h, "start_game", "saveRound")
  /\ IF RoundExists(1)
     THEN \* the unique index (gameId, roundNumber) rejects the round
          /\ Fail(h)
          /\ UNCHANGED rounds
     ELSE /\ rounds' = rounds \cup {NewRound(1)}
          /\ out' = <<>>
          /\ Return(h)
  /\ UNCHANGED <<game, players, answers, nconn, open, closes, left>>

\* --------------------------------------------------------- submit_answer
\* Game.findOneAndUpdate({_id, status: 'in-progress'}, {$inc: {playersAnswered: 1}}, {new: true})
findOneAndUpdate_inc(g) ==
  [g EXCEPT !.playersAnswered = @ + 1]

submit_answer(s, answer) ==
  /\ Received(s)
  /\ RoomKnown
  /\ IF game.status # "in-progress"
     THEN /\ Reject(s, "submit_answer")
          /\ UNCHANGED game
     ELSE /\ game' = findOneAndUpdate_inc(game)
          /\ Suspend([New(s, "submit_answer", "findPlayer") EXCEPT !.answer = answer,
                  !.wrote = game' # game,
                  !.game = Loaded(game', {"currentRound", "playersAnswered", "pinkCowHolder"})])
          /\ out' = <<>>
  /\ UNCHANGED <<players, rounds, answers, nconn, open, closes>>

\* Player.findOne({gameId, socketId: socket.id}): any of the matching players
submit_answer_findPlayer(h) ==
  /\ At(h, "submit_answer", "findPlayer")
  /\ LET found == PlayersOn(hs[h].sock)
     IN IF found = {}
        THEN Fail(h)
        ELSE \E i \in found :
               /\ Goto(h, [Cont(h, "findRound") EXCEPT !.answer = hs[h].answer, !.game = hs[h].game,
                       !.player = i])
               /\ out' = <<>>
  /\ UNCHANGED <<db, nconn, open, closes, left>>

\* Round.findOne, then round._id, which throws when no round was found
submit_answer_findRound(h) ==
  /\ At(h, "submit_answer", "findRound")
  /\ IF ~RoundExists(hs[h].game.currentRound)
     THEN Fail(h)
     ELSE /\ Goto(h, [Cont(h, "saveAnswer") EXCEPT !.answer = hs[h].answer, !.player = hs[h].player,
             !.round = hs[h].game.currentRound,
             !.game = Loaded(hs[h].game, {"playersAnswered", "pinkCowHolder"})])
          /\ out' = <<>>
  /\ UNCHANGED <<db, nconn, open, closes, left>>

\* newAnswer.save(): the schema requires non-empty originalAnswer and
\* normalizedAnswer; the unique index (roundId, playerId) rejects a duplicate
AnswerSaves(a) ==
  /\ a.originalAnswer # <<>>
  /\ a.normalizedAnswer # <<>>
  /\ \A b \in answers : ~(b.roundId = a.roundId /\ b.playerId = a.playerId)

submit_answer_saveAnswer(h) ==
  /\ At(h, "submit_answer", "saveAnswer")
  /\ LET newAnswer == NewAnswer(hs[h].round, hs[h].player, hs[h].answer)
     IN IF AnswerSaves(newAnswer)
        THEN /\ answers' = answers \cup {newAnswer}
             /\ Goto(h, [Cont(h, "countConnected") EXCEPT !.round = hs[h].round, !.game = hs[h].game,
                     !.wrote = TRUE])
             /\ out' = <<>>
        ELSE /\ Fail(h)
             /\ UNCHANGED answers
  /\ UNCHANGED <<game, players, rounds, nconn, open, closes, left>>

\* if (game.playersAnswered >= connectedPlayers)
AllAnswered(playersAnswered, connectedPlayers) ==
  playersAnswered >= connectedPlayers

\* Player.countDocuments({gameId, isConnected: true}) and the closing test
submit_answer_countConnected(h) ==
  /\ At(h, "submit_answer", "countConnected")
  /\ IF AllAnswered(hs[h].game.playersAnswered, Cardinality(ConnectedPlayers))
     THEN Goto(h, [Cont(h, "analyze") EXCEPT !.round = hs[h].round,
             !.game = Loaded(hs[h].game, {"pinkCowHolder"})])
     ELSE Return(h)
  /\ out' = <<>>
  /\ UNCHANGED <<db, nconn, open, closes, left>>

submit_answer_analyze(h) ==
  /\ At(h, "submit_answer", "analyze")
  /\ LET results == analyzeRoundAnswers(hs[h].round)
     IN Goto(h, [Cont(h, IF results.scoringPlayers # {} THEN "updateScores" ELSE "updateGame")
                 EXCEPT !.round = hs[h].round,
             !.results = results,
             !.holder = determinePinkCowHolder(hs[h].game.pinkCowHolder, results.uniqueAnswerPlayer)])
  /\ out' = <<>>
  /\ UNCHANGED <<db, nconn, open, closes, left>>

\* Player.updateMany({_id: {$in: scoringPlayers}}, {$inc: {score: 1}})
submit_answer_updateScores(h) ==
  /\ At(h, "submit_answer", "updateScores")
  /\ players' = [i \in PlayerIds |->
                   IF i \in hs[h].results.scoringPlayers
                   THEN [players[i] EXCEPT !.score = @ + 1]
                   ELSE players[i]]
  /\ Goto(h, [Cont(h, "updateGame") EXCEPT !.round = hs[h].round, !.results = hs[h].results,
          !.holder = hs[h].holder, !.wrote = TRUE])
  /\ out' = <<>>
  /\ UNCHANGED <<game, rounds, answers, nconn, open, closes, left>>

\* Game.findByIdAndUpdate(gameId, {pinkCowHolder, playersAnswered: 0})
submit_answer_updateGame(h) ==
  /\ At(h, "submit_answer", "updateGame")
  /\ game' = [game EXCEPT !.pinkCowHolder = hs[h].holder, !.playersAnswered = 0]
  /\ Goto(h, [Cont(h, "roundCompleted") EXCEPT !.round = hs[h].round, !.results = hs[h].results,
          !.holder = hs[h].holder, !.wrote = TRUE])
  /\ out' = <<>>
  /\ UNCHANGED <<players, rounds, answers, nconn, open, closes, left>>

\* potentialWinners.reduce((prev, current) => (prev.score > current.score) ? prev : current)
RECURSIVE reduceWinner(_, _)
reduceWinner(prev, rest) ==
  IF rest = <<>> THEN prev
  ELSE reduceWinner(IF players[prev].score > players[Head(rest)].score THEN prev ELSE Head(rest),
                    Tail(rest))

Seq1(n) == [i \in 1..n |-> i]

\* the players with 8 or more points that do not hold the pink cow, in
\* iteration order
potentialWinners(newPinkCowHolder) ==
  SelectSeq(Seq1(Len(players)),
            LAMBDA i : players[i].score >= WinScore /\ i # newPinkCowHolder)

\* Player.find, the round_completed broadcast and the win evaluation
submit_answer_roundCompleted(h) ==
  /\ At(h, "submit_answer", "roundCompleted")
  /\ closes' = [n \in DOMAIN closes \cup {hs[h].round} |->
                  IF n \in DOMAIN closes
                  THEN closes[n] + (IF n = hs[h].round THEN 1 ELSE 0)
                  ELSE 1]
  /\ out' = <<[Ev("round_completed", NoSocket, hs[h].op, hs[h].wrote) EXCEPT
                 !.round = hs[h].round, !.results = hs[h].results]>>
  /\ IF potentialWinners(hs[h].holder) # <<>>
     THEN Goto(h, [Cont(h, "completeGame") EXCEPT
                     !.winner = reduceWinner(Head(potentialWinners(hs[h].holder)),
                                             Tail(potentialWinners(hs[h].holder)))])
     ELSE Return(h)
  /\ UNCHANGED <<db, nconn, open, left>>

\* Game.findByIdAndUpdate(gameId, {status: 'completed'})
submit_answer_completeGame(h) ==
  /\ At(h, "submit_answer", "completeGame")
  /\ game' = [game EXCEPT !.status = "completed"]
  /\ out' = <<[Ev("game_completed", NoSocket, hs[h].op, hs[h].wrote) EXCEPT
                 !.winner = hs[h].winner]>>
  /\ Return(h)
  /\ UNCHANGED <<players, rounds, answers, nconn, open, closes, left>>

\* ------------------------------------------------------------ next_round
\* Game.findById, the status check and the host check
next_round(s) ==
  /\ Received(s)
  /\ RoomKnown
  /\ IF game = NoGame \/ game.status # "in-progress" \/ ~IsHost(s)
     THEN Reject(s, "next_round")
     ELSE /\ Suspend([New(s, "next_round", "saveRound") EXCEPT
                       !.game = Loaded(game, {"currentRound", "currentQuestion",
                                              "usedQuestions"})])
          /\ out' = <<>>
  /\ UNCHANGED <<db, nconn, open, closes>>

next_round_saveRound(h) ==
  /\ At(h, "next_round", "saveRound")
  /\ IF RoundExists(hs[h].game.currentRound + 1)
     THEN \* the unique index (gameId, roundNumber) rejects the round
          /\ Fail(h)
          /\ UNCHANGED rounds
     ELSE /\ rounds' = rounds \cup {NewRound(hs[h].game.currentRound + 1)}
          /\ Goto(h, [Cont(h, "saveGame") EXCEPT !.game = hs[h].game, !.wrote = TRUE])
          /\ out' = <<>>
  /\ UNCHANGED <<game, players, answers, nconn, open, closes, left>>

\* game.save(): $set currentRound and currentQuestion, $push usedQuestions
next_round_saveGame(h) ==
  /\ At(h, "next_round", "saveGame")
  /\ \E nextQuestion \in getRandomQuestion(hs[h].game.usedQuestions) :
       game' = [SaveModified(game, hs[h].game,
                  [hs[h].game EXCEPT !.currentRound = @ + 1,
                                     !.currentQuestion = nextQuestion])
                EXCEPT !.usedQuestions = Append(game.usedQuestions, nextQuestion)]
  /\ out' = <<>>
  /\ Return(h)
  /\ UNCHANGED <<players, rounds, answers, nconn, open, closes, left>>

\* --------------------------------------------------------- remove_player
\* Game.findById and the host check
remove_player(s, playerId) ==
  /\ Received(s)
  /\ RoomKnown
  /\ IF game = NoGame \/ ~IsHost(s)
     THEN Reject(s, "remove_player")
     ELSE /\ Suspend([New(s, "remove_player", "updatePlayer") EXCEPT !.target = playerId])
          /\ out' = <<>>
  /\ UNCHANGED <<db, nconn, open, closes>>

\* Player.updateMany in the place of findOneAndUpdate: every match is updated
remove_player_updatePlayer_many(h) ==
  /\ At(h, "remove_player", "updatePlayer")
  /\ players' = [i \in PlayerIds |->
                   IF i \in PlayersOn(hs[h].target)
                   THEN [players[i] EXCEPT !.isConnected = FALSE]
                   ELSE players[i]]
  /\ out' = <<>>
  /\ Return(h)
  /\ UNCHANGED <<game, rounds, answers, nconn, open, closes, left>>

\* Player.findOneAndUpdate({gameId, socketId: playerId}, {isConnected: false})
remove_player_updatePlayer(h) ==
  /\ At(h, "remove_player", "updatePlayer")
  /\ LET found == PlayersOn(hs[h].target)
     IN IF found = {}
        THEN UNCHANGED players
        ELSE \E i \in found : players' = [players EXCEPT ![i].isConnected = FALSE]
  /\ out' = <<>>
  /\ Return(h)
  /\ UNCHANGED <<game, rounds, answers, nconn, open, closes, left>>

\* -------------------------------------------------------- reconnect_game
\* Game.findOne({_id: gameId, roomCode})
reconnect_game(s, username) ==
  /\ Received(s)
  /\ RoomKnown
  /\ IF game = NoGame
     THEN /\ out' = <<Ev("reconnect_failed", s, "reconnect_game", FALSE)>>
          /\ UNCHANGED hs
     ELSE /\ Suspend([New(s, "reconnect_game", "findPlayer") EXCEPT !.username = username,
             !.game = Loaded(game, {"currentRound"})])
          /\ out' = <<>>
  /\ UNCHANGED <<db, nconn, open, closes>>

\* Player.findOne({gameId, username, isConnected: false})
reconnect_game_findPlayer(h) ==
  /\ At(h, "reconnect_game", "findPlayer")
  /\ LET found == {i \in PlayersNamed(hs[h].username) : ~players[i].isConnected}
     IN IF found = {}
        THEN /\ out' = <<Ev("reconnect_failed", hs[h].sock, hs[h].op, hs[h].wrote)>>
             /\ Return(h)
        ELSE \E i \in found :
               /\ Goto(h, [Cont(h, "savePlayer") EXCEPT !.game = hs[h].game, !.player = i,
                       !.pconn = players[i].isConnected, !.psock = players[i].socketId])
               /\ out' = <<>>
  /\ UNCHANGED <<db, nconn, open, closes, left>>

reconnect_game_savePlayer(h) ==
  /\ At(h, "reconnect_game", "savePlayer")
  /\ players' = Rebind(hs[h].player, hs[h].psock, hs[h].pconn, hs[h].sock)
  /\ Goto(h, [Cont(h, "sendState") EXCEPT !.game = hs[h].game, !.wrote = players' # players])
  /\ out' = <<>>
  /\ UNCHANGED <<game, rounds, answers, nconn, open, closes, left>>

\* Round.findOne, Answer.countDocuments({roundId}), game_rejoined
reconnect_game_sendState(h) ==
  /\ At(h, "reconnect_game", "sendState")
  /\ LET n == hs[h].game.currentRound
         playersAnswered == IF RoundExists(n)
                            THEN Cardinality({a \in answers : a.roundId = n})
                            ELSE 0
     IN out' = <<[Ev("game_rejoined", hs[h].sock, hs[h].op, hs[h].wrote) EXCEPT
                    !.round = n, !.pa = playersAnswered]>>
  /\ Return(h)
  /\ UNCHANGED <<db, nconn, open, closes, left>>

\* ------------------------------------------------------------ disconnect
\* The connection closes; Player.findOne({socketId: socket.id})
disconnect(s) ==
  /\ Received(s)
  /\ open' = open \ {s}
  /\ LET found == PlayersOn(s)
     IN IF found = {}
        THEN UNCHANGED hs
        ELSE \E i \in found :
               Suspend([New(s, "disconnect", "savePlayer") EXCEPT !.player = i,
                       !.pconn = players[i].isConnected])
  /\ out' = <<>>
  /\ UNCHANGED <<db, nconn, closes>>

\* player.isConnected = false; await player.save()
disconnect_savePlayer(h) ==
  /\ At(h, "disconnect", "savePlayer")
  /\ players' = [players EXCEPT ![hs[h].player].isConnected =
                   IF hs[h].pconn THEN FALSE ELSE @]
  /\ out' = <<>>
  /\ Return(h)
  /\ UNCHANGED <<game, rounds, answers, nconn, open, closes, left>>

\* ------------------------------------------------------- specification
\* The server after construction: no room, no connection.
InitFresh ==
  /\ game = NoGame
  /\ players = <<>>
  /\ rounds = {}
  /\ answers = {}
  /\ hs = [h \in 1..MaxHandlers |-> Idle]
  /\ nconn = 0
  /\ open = {}
  /\ out = <<>>
  /\ closes = [n \in {} |-> 0]
  /\ left = MaxEvents

\* usedQuestions after n rounds in which the catalog was drawn in order
DrawnInOrder(n) == [i \in 1..n |-> ((i - 1) % NQuestions) + 1]

\* A room in play: connection k has joined as player k (connection 1 created
\* the room), the host has started round n after n - 1 rounds in which
\* everybody answered "dog", so that everybody has n - 1 points, nobody holds
\* the pink cow and every round was closed once.
InPlay(n) ==
  /\ game = [hostId |-> 1, status |-> "in-progress", currentRound |-> n,
             currentQuestion |-> DrawnInOrder(n)[n], playersAnswered |-> 0,
             pinkCowHolder |-> NoPlayer, usedQuestions |-> DrawnInOrder(n)]
  /\ players = [i \in Names |-> [NewPlayer(i, i = 1, i) EXCEPT !.score = n - 1]]
  /\ rounds = {NewRound(k) : k \in 1..n}
  /\ answers = {NewAnswer(k, i, <<"d", "o", "g">>) : k \in 1..(n - 1), i \in Names}
  /\ hs = [h \in 1..MaxHandlers |-> Idle]
  /\ nconn = NNames
  /\ open = Names
  /\ out = <<>>
  /\ closes = [k \in 1..(n - 1) |-> 1]

\* the first round of a room
InitRound == InPlay(1) /\ left = RoundEvents

\* the round in which the players can reach the winning score
InitLate == InPlay(WinScore) /\ left = LateEvents

Init == InitFresh \/ InitRound \/ InitLate

Receive ==
  \/ \E s \in open, username \in Names : create_game(s, username)
  \/ \E s \in open, username \in Names : join_game(s, username)
  \/ \E s \in open : start_game(s)
  \/ \E s \in open, answer \in RawAnswers : submit_answer(s, answer)
  \/ \E s \in open : next_round(s)
  \/ \E s \in open, playerId \in 1..nconn : remove_player(s, playerId)
  \/ \E s \in open, username \in Names : reconnect_game(s, username)
  \/ \E s \in open : disconnect(s)

SubmitStep(h) ==
  \/ submit_answer_findPlayer(h)
  \/ submit_answer_findRound(h)
  \/ submit_answer_saveAnswer(h)
  \/ submit_answer_countConnected(h)
  \/ submit_answer_analyze(h)
  \/ submit_answer_updateScores(h)
  \/ submit_answer_updateGame(h)
  \/ submit_answer_roundCompleted(h)

Step(h) ==
  \/ create_game_saveGame(h)
  \/ create_game_saveHost(h)
  \/ join_game_findPlayer(h)
  \/ join_game_savePlayer(h)
  \/ join_game_sendState(h)
  \/ start_game_saveGame(h)
  \/ start_game_saveRound(h)
  \/ SubmitStep(h)
  \/ submit_answer_completeGame(h)
  \/ next_round_saveRound(h)
  \/ next_round_saveGame(h)
  \/ remove_player_updatePlayer(h)
  \/ reconnect_game_findPlayer(h)
  \/ reconnect_game_savePlayer(h)
  \/ reconnect_game_sendState(h)
  \/ disconnect_savePlayer(h)

Next ==
  \/ connection
  \/ Receive
  \/ \E h \in Slots : Step(h)

Spec == Init /\ [][Next]_vars

SpecFresh == InitFresh /\ [][Next]_vars
SpecRound == InitRound /\ [][Next]_vars
SpecLate == InitLate /\ [][Next]_vars

\* --------------------------------------------- concurrent submissions
\* The room in play with every player connected; the only events are
\* submit_answer, one per player, in flight together.
InitConcurrent == InPlay(1) /\ left = NNames

\* the one submit_answer of the player on connection s: the submissions are
\* received in the order of the connections, their handlers interleave
SubmitOnce(s, answer) ==
  /\ s = NNames - left + 1
  /\ submit_answer(s, answer)

NextConcurrent ==
  \/ \E s \in open : \E answer \in RawAnswers : SubmitOnce(s, answer)
  \/ \E h \in Slots : SubmitStep(h)

SpecConcurrent == InitConcurrent /\ [][NextConcurrent]_vars

\* ------------------------------------------------------------ properties
\* the number of times the closing logic of round n has broadcast round_completed
Closes(n) == IF n \in DOMAIN closes THEN closes[n] ELSE 0

Quiet == left = 0 /\ \A h \in Slots : hs[h].op = "idle"

AnsweredIn(n) == {a.playerId : a \in {b \in answers : b.roundId = n}}

\* handler h takes its step from the await pc of event op
Takes(h, op, pc) == At(h, op, pc) /\ hs'[h] # hs[h]

HostOps == {"start_game", "next_round", "remove_player"}

\* C1: the closing logic of submit_answer runs at most once for every round
\* of the room, whatever other events interleave with the submissions.
C1_ClosedAtMostOnce == \A n \in DOMAIN closes : closes[n] <= 1

\* C2: with every player connected and one submit_answer per player in
\* flight together and no other event, round_completed is broadcast at most
\* once, and when all handlers have finished it was broadcast exactly once and
\* playersAnswered is 0.
C2_OneBroadcast ==
  /\ Closes(game.currentRound) <= 1
  /\ Quiet => Closes(game.currentRound) = 1 /\ game.playersAnswered = 0

\* C3: when a handler tallies the round, every connected player has an
\* answer stored for that round.
C3_TallyCoversConnected ==
  [][\A h \in Slots :
       Takes(h, "submit_answer", "analyze") =>
         ConnectedPlayers \subseteq AnsweredIn(hs[h].round)]_vars

\* C4: a submit_answer of a player that already has an answer in the round
\* stores no second answer and has not changed the store when it is rejected:
\* playersAnswered is as it was before that submission.
C4_DuplicateLeavesCounter ==
  [][\A h \in Slots :
       (/\ Takes(h, "submit_answer", "saveAnswer")
        /\ hs[h].player \in AnsweredIn(hs[h].round))
       => answers' = answers /\ ~hs[h].wrote]_vars

\* C5: playersAnswered is at least 0 and at most the number of connected
\* players of the room.
C5_CounterBounded ==
  game.playersAnswered >= 0 /\ game.playersAnswered <= Cardinality(ConnectedPlayers)

\* C6: a handler that answers with an error has not changed the store.
C6_ErrorChangesNothing ==
  \A i \in DOMAIN out :
    out[i].ev \in {"error", "reconnect_failed"} => ~out[i].wrote

\* C7: the status of the room only moves from waiting to in-progress and from
\* in-progress to completed.
C7_StatusForward ==
  [][\/ game'.status = game.status
     \/ game.status = "none" /\ game'.status = "waiting"
     \/ game.status = "waiting" /\ game'.status = "in-progress"
     \/ game.status = "in-progress" /\ game'.status = "completed"]_vars

\* C8: start_game, next_round and remove_player from a connection that is not
\* the host's never start a handler; every event other than disconnect either
\* starts a handler or is answered at once, and a host-only event answered with
\* an error at once leaves the store as it was.
C8_HostOnly ==
  [][left' < left =>
       /\ \A h \in Slots :
            (hs'[h] # hs[h] /\ hs'[h].op \in HostOps) =>
              game # NoGame /\ hs'[h].sock = game.hostId
       /\ (open' = open) => (hs' # hs \/ out' # <<>>)
       /\ (out' # <<>> /\ out'[1].ev = "error" /\ out'[1].op \in HostOps) =>
            db' = db /\ hs' = hs]_vars

C8_NonHostRejected ==
  /\ game # NoGame
  /\ out # <<>>
  /\ out[1].ev = "error"
  /\ out[1].op \in HostOps
  /\ out[1].to # game.hostId

\* C9: once the room has left waiting, no player is added to it.
C9_NoPlayerAfterWaiting ==
  [][game.status \notin {"none", "waiting"} => Len(players') = Len(players)]_vars

\* C10: when round_completed is broadcast for a round, the round's record is
\* completed and holds the majority answer and the unique answerer of the
\* broadcast.
C10_RoundRecordCompleted ==
  \A i \in DOMAIN out :
    out[i].ev = "round_completed" =>
      /\ RoundExists(out[i].round)
      /\ RoundOf(out[i].round).status = "completed"
      /\ RoundOf(out[i].round).majorityAnswer = out[i].results.majorityAnswer
      /\ RoundOf(out[i].round).uniqueAnswerPlayer = out[i].results.uniqueAnswerPlayer

\* the number of the round created last
LatestRound == Cardinality(rounds)

\* C11: a game_joined sent for the latest round of the room, when the results
\* of that round have been broadcast, carries the round's results.
C11_JoinedSeesResults ==
  \A i \in DOMAIN out :
    (/\ out[i].ev = "game_joined"
     /\ out[i].round = LatestRound
     /\ Closes(out[i].round) >= 1) => ~out[i].results.none

\* C12: the step of a round close that writes the token holder stores the
\* unique answerer of the tally if there is one and it is not the stored
\* holder, and otherwise leaves the stored holder; no other step changes it.
C12_TokenRule ==
  [][/\ \A h \in Slots :
          Takes(h, "submit_answer", "updateGame") =>
            game'.pinkCowHolder =
              IF /\ hs[h].results.uniqueAnswerPlayer # NoPlayer
                 /\ hs[h].results.uniqueAnswerPlayer # game.pinkCowHolder
              THEN hs[h].results.uniqueAnswerPlayer
              ELSE game.pinkCowHolder
     /\ game'.pinkCowHolder # game.pinkCowHolder =>
          \E h \in Slots : Takes(h, "submit_answer", "updateGame")]_vars

\* ------------------------------------------------------------ the tally
TallyPlayers == 3      \* players of the room whose round is tallied

\* the texts of the tallied answers
TallyAnswers == {a \in RawAnswers : normalizeAnswer(a) # <<>>} \cup InheritedKeys

\* A room in round 1 with TallyPlayers connected players; a handler of
\* submit_answer has passed the closing test and is about to tally the answers
\* stored for the round: those of any players, with any texts, any token holder.
InitTally ==
  /\ \E holder \in 0..TallyPlayers :
       /\ game = [hostId |-> 1, status |-> "in-progress", currentRound |-> 1,
                  currentQuestion |-> 1, playersAnswered |-> TallyPlayers,
                  pinkCowHolder |-> holder, usedQuestions |-> <<1>>]
       /\ hs = [h \in 1..MaxHandlers |->
                  IF h = 1
                  THEN [New(1, "submit_answer", "analyze") EXCEPT
                          !.round = 1, !.wrote = TRUE,
                          !.game = Loaded(game, {"pinkCowHolder"})]
                  ELSE Idle]
  /\ players = [i \in 1..TallyPlayers |-> NewPlayer(i, i = 1, i)]
  /\ rounds = {NewRound(1)}
  /\ \E S \in SUBSET (1..TallyPlayers) :
       /\ S # {}
       /\ \E f \in [S -> TallyAnswers] : answers = {NewAnswer(1, i, f[i]) : i \in S}
  /\ nconn = TallyPlayers
  /\ open = 1..TallyPlayers
  /\ out = <<>>
  /\ closes = [k \in {} |-> 0]
  /\ left = 0

NextTally ==
  \E h \in Slots :
    \/ submit_answer_analyze(h)
    \/ submit_answer_updateScores(h)
    \/ submit_answer_updateGame(h)
    \/ submit_answer_roundCompleted(h)

SpecTally == InitTally /\ [][NextTally]_vars

\* the players whose stored answer of round n has the canonical text t
Given(n, t) == {a.playerId : a \in {b \in answers : b.roundId = n /\ b.normalizedAnswer = t}}

Texts(n) == {a.normalizedAnswer : a \in {b \in answers : b.roundId = n}}

\* the canonical texts of round n with the highest count, with count 1
TopTexts(n) ==
  {t \in Texts(n) : \A u \in Texts(n) : Cardinality(Given(n, u)) <= Cardinality(Given(n, t))}

OnceTexts(n) == {t \in Texts(n) : Cardinality(Given(n, t)) = 1}

Tallied(h) ==
  hs[h].op = "submit_answer" /\ hs[h].pc \in {"updateScores", "updateGame", "roundCompleted"}

\* C13: the tally's majority answer is the canonical text with the highest
\* count when one text alone has that count, and the scoring players are the
\* players who gave it; on a tie there is no majority answer, no scoring player,
\* and no score changes.
C13_Majority ==
  \A h \in Slots :
    Tallied(h) =>
      LET n == hs[h].round
          r == hs[h].results
          scored == IF hs[h].pc = "updateScores" THEN {} ELSE r.scoringPlayers
      IN /\ IF Cardinality(TopTexts(n)) = 1
            THEN /\ r.majorityAnswer \in TopTexts(n)
                 /\ r.scoringPlayers = Given(n, r.majorityAnswer)
            ELSE /\ r.majorityAnswer = NullText
                 /\ r.scoringPlayers = {}
         /\ \A i \in PlayerIds : players[i].score = IF i \in scored THEN 1 ELSE 0

\* C14: the tally's unique answerer is the player who gave the one canonical
\* text of count 1 when exactly one text has count 1, and none otherwise; a
\* close without unique answerer leaves the token holder.
C14_UniqueAnswerer ==
  [][\A h \in Slots :
       /\ Takes(h, "submit_answer", "analyze") =>
            LET n == hs[h].round
            IN IF Cardinality(OnceTexts(n)) = 1
               THEN Given(n, CHOOSE t \in OnceTexts(n) : TRUE) =
                      {hs'[h].results.uniqueAnswerPlayer}
               ELSE hs'[h].results.uniqueAnswerPlayer = NoPlayer
       /\ (/\ Takes(h, "submit_answer", "updateGame")
           /\ Cardinality(OnceTexts(hs[h].round)) # 1) =>
            game'.pinkCowHolder = game.pinkCowHolder]_vars

\* C15: the winner announced with game_completed has at least WinScore points
\* and is not the stored token holder.
C15_WinnerEligible ==
  \A i \in DOMAIN out :
    out[i].ev = "game_completed" =>
      /\ players[out[i].winner].score >= WinScore
      /\ out[i].winner # game.pinkCowHolder

\* the players with at least WinScore points that do not hold the token
Eligible == {p \in PlayerIds : players[p].score >= WinScore /\ p # game.pinkCowHolder}

\* C16: no eligible player has more points than the winner announced with
\* game_completed, and no eligible player with the winner's points comes before
\* the winner in the iteration order of the players.
C16_WinnerFirstOfBest ==
  \A i \in DOMAIN out :
    out[i].ev = "game_completed" =>
      \A p \in Eligible :
        \/ players[p].score < players[out[i].winner].score
        \/ players[p].score = players[out[i].winner].score /\ out[i].winner <= p

\* C17: no step gives a player that is marked connected another connection.
C17_RebindOnlyDisconnected ==
  [][\A i \in PlayerIds :
       players[i].isConnected => players'[i].socketId = players[i].socketId]_vars

\* connection s maps to players, all of them marked disconnected
OnlyDisconnectedOn(s) ==
  PlayersOn(s) # {} /\ \A i \in PlayersOn(s) : ~players[i].isConnected

\* C18: a submit_answer received from a connection whose player is marked
\* disconnected does not change playersAnswered, and a handler of submit_answer
\* whose player is marked disconnected stores no answer.
C18_DisconnectedCannotAnswer ==
  [][\A h \in Slots :
       /\ (/\ hs[h].op = "idle"
           /\ hs'[h].op = "submit_answer"
           /\ OnlyDisconnectedOn(hs'[h].sock)) =>
            game'.playersAnswered = game.playersAnswered
       /\ (/\ Takes(h, "submit_answer", "saveAnswer")
           /\ ~players[hs[h].player].isConnected) => answers' = answers]_vars

\* the prompts of the room's used-prompt list
UsedPrompts == {game.usedQuestions[k] : k \in DOMAIN game.usedQuestions}

\* C19: next_round does not choose a prompt of the stored used-prompt list
\* while a prompt of the catalog is not in the list, and the list holds no
\* prompt twice while a prompt of the catalog is not in it.
C19_NoRepeatedPrompt ==
  [][/\ \A h \in Slots :
          (Takes(h, "next_round", "saveGame") /\ UsedPrompts # Questions) =>
            game'.currentQuestion \notin UsedPrompts
     /\ (UsedPrompts # Questions)' =>
          (\A j, k \in DOMAIN game.usedQuestions :
             game.usedQuestions[j] = game.usedQuestions[k] => j = k)']_vars

\* ------------------------------------------------- the normalizer alone
MaxLen == 4            \* length of the texts given to the normalizer

\* letters with s and those of the articles, a capital, the space, punctuation
Alphabet == {"s", "S", "a", "n", "t", "h", "e", "d", " ", "."}

\* the non-empty texts over the alphabet
Inputs == UNION {[1..n -> Alphabet] : n \in 1..MaxLen}

\* A room in round 1; a handler of submit_answer of the host, with any text
\* as its answer, has counted itself and is about to store the Answer, whose
\* normalizedAnswer is normalizeAnswer(answer).
InitNormalize ==
  /\ game = [hostId |-> 1, status |-> "in-progress", currentRound |-> 1,
             currentQuestion |-> 1, playersAnswered |-> 1,
             pinkCowHolder |-> NoPlayer, usedQuestions |-> <<1>>]
  /\ \E answer \in Inputs :
       hs = [h \in 1..MaxHandlers |->
               IF h = 1
               THEN [New(1, "submit_answer", "saveAnswer") EXCEPT
                       !.answer = answer, !.player = 1, !.round = 1, !.wrote = TRUE,
                       !.game = Loaded(game, {"playersAnswered", "pinkCowHolder"})]
               ELSE Idle]
  /\ players = [i \in Names |-> NewPlayer(i, i = 1, i)]
  /\ rounds = {NewRound(1)}
  /\ answers = {}
  /\ nconn = NNames
  /\ open = Names
  /\ out = <<>>
  /\ closes = [k \in {} |-> 0]
  /\ left = 0

NextNormalize ==
  \E h \in Slots :
    \/ submit_answer_saveAnswer(h)
    \/ submit_answer_countConnected(h)

SpecNormalize == InitNormalize /\ [][NextNormalize]_vars

\* C20: normalizeAnswer is idempotent: the canonical form stored for a text
\* is its own canonical form, normalizeAnswer(normalizeAnswer(x)) =
\* normalizeAnswer(x) for every text x handed to the normalizer.
C20_NormalizeIdempotent ==
  \A a \in answers :
    /\ a.normalizedAnswer = normalizeAnswer(a.originalAnswer)
    /\ normalizeAnswer(a.normalizedAnswer) = a.normalizedAnswer

\* the players a handler of disconnect or remove_player is aimed at
Targets(h) ==
  IF hs[h].op = "disconnect" THEN {hs[h].player} ELSE PlayersOn(hs[h].target)

\* C21: the write of disconnect and of remove_player changes nothing but the
\* isConnected flag of one target player, which it clears: no Player is
\* deleted, every score, username and isHost flag is kept, and the room's
\* pinkCowHolder, status and currentRound are kept.
C21_OnlyLivenessFlag ==
  [][\A h \in Slots :
       (Takes(h, "disconnect", "savePlayer") \/ Takes(h, "remove_player", "updatePlayer")) =>
         /\ game'.pinkCowHolder = game.pinkCowHolder
         /\ game'.status = game.status
         /\ game'.currentRound = game.currentRound
         /\ Len(players') = Len(players)
         /\ \A i \in PlayerIds :
              /\ players'[i].score = players[i].score
              /\ players'[i].username = players[i].username
              /\ players'[i].isHost = players[i].isHost
              /\ players'[i].socketId = players[i].socketId
              /\ players'[i].isConnected # players[i].isConnected =>
                   ~players'[i].isConnected /\ i \in Targets(h)
         /\ Cardinality({i \in PlayerIds :
                           players'[i].isConnected # players[i].isConnected}) <= 1]_vars

\* a player with points has been marked disconnected
C21_ScoreKeptOffline ==
  \E i \in PlayerIds : ~players[i].isConnected /\ players[i].score = WinScore - 1

\* the connections on which the host player is live after the connection
\* that created the room has closed, no handler being in flight
RejoinedHost ==
  {s \in open : /\ game # NoGame
                /\ game.hostId \notin open
                /\ \A h \in Slots : hs[h].op = "idle"
                /\ \E i \in PlayersOn(s) : players[i].isHost /\ players[i].isConnected}

\* C22: once the host player has left and is live again on a new connection,
\* start_game and remove_player from that connection, and next_round from it
\* in a room in progress, are not answered with an error.
C22_HostFollowsPlayer ==
  [][\A s \in RejoinedHost :
       ~ /\ left' < left
         /\ out' # <<>>
         /\ out'[1].ev = "error"
         /\ out'[1].to = s
         /\ \/ out'[1].op \in {"start_game", "remove_player"}
            \/ out'[1].op = "next_round" /\ game.status = "in-progress"]_vars

\* C23: once the room's current round, the last one created, has closed and
\* while no submit_answer handler is in flight, the answered count that game_rejoined reports is the
\* room's playersAnswered counter, the value game_joined reports.
C23_RejoinedCount ==
  \A k \in DOMAIN out :
    (/\ out[k].ev = "game_rejoined"
     /\ out[k].round = game.currentRound
     /\ out[k].round = LatestRound
     /\ Closes(game.currentRound) > 0
     /\ \A h \in Slots : hs[h].op # "submit_answer") =>
      out[k].pa = game.playersAnswered

\* ------------------------------------------- a round under fair scheduling
\* the events that bear on the closing of a round
ReceiveLive ==
  \/ \E s \in open, answer \in RawAnswers : submit_answer(s, answer)
  \/ \E s \in open, playerId \in 1..nconn : remove_player(s, playerId)
  \/ \E s \in open : disconnect(s)

StepLive(h) ==
  \/ SubmitStep(h)
  \/ remove_player_updatePlayer(h)
  \/ disconnect_savePlayer(h)

NextLive ==
  \/ ReceiveLive
  \/ \E h \in Slots : StepLive(h)

\* The event loop resumes every handler whose awaited operation has
\* completed; no client has to send anything.
SpecLive == InitRound /\ [][NextLive]_vars /\ WF_vars(\E h \in Slots : StepLive(h))

\* a room in progress with a connected player, all of whose connected
\* players have an Answer stored for the current round
AllConnectedAnswered ==
  /\ game.status = "in-progress"
  /\ ConnectedPlayers # {}
  /\ ConnectedPlayers \subseteq AnsweredIn(game.currentRound)

\* C24: whenever every connected player of a room in progress has an Answer
\* stored for the current round, round_completed is eventually broadcast for
\* that round.
C24_EventuallyClosed ==
  AllConnectedAnswered ~> (Closes(game.currentRound) > 0)

\* the stored answers cover the connected players, the round has not closed,
\* no handler is in flight to close it, and the server can still receive events
C24_Stalled ==
  /\ AllConnectedAnswered
  /\ Closes(game.currentRound) = 0
  /\ \A h \in Slots : hs[h].op = "idle"
  /\ left > 0

\* C25: the save of a disconnect handler does not mark its player
\* disconnected when the player has been rebound to another connection that
\* is open and is connected on it.
C25_StaleDisconnect ==
  [][\A h \in Slots :
       (/\ Takes(h, "disconnect", "savePlayer")
        /\ players[hs[h].player].socketId # hs[h].sock
        /\ players[hs[h].player].socketId \in open
        /\ players[hs[h].player].isConnected) =>
         players'[hs[h].player].isConnected]_vars

\* C26: no step lowers the room's currentRound, and the save of an accepted
\* next_round raises it by exactly 1.
C26_RoundNeverDecreases ==
  [][/\ game'.currentRound >= game.currentRound
     /\ \A h \in Slots :
          Takes(h, "next_round", "saveGame") =>
            game'.currentRound = game.currentRound + 1]_vars

\* the closed rounds in which the stored answer of player p has the canonical
\* text that alone has the highest count
MajorityRounds(p) ==
  {n \in DOMAIN closes : /\ closes[n] > 0
                         /\ Cardinality(TopTexts(n)) = 1
                         /\ \E t \in TopTexts(n) : p \in Given(n, t)}

\* C27: while no submit_answer handler is in flight, the score of every
\* player is the number of closed rounds in which the player's answer had the
\* majority text: one point per such round at most.
C27_ScoreIsMajorityRounds ==
  (\A h \in Slots : hs[h].op # "submit_answer") =>
    \A p \in PlayerIds : players[p].score = Cardinality(MajorityRounds(p))

====
